---- MODULE Spec2Model ----
(***************************************************************************)
(* Model of upload_to_release.py: a command line program that uploads      *)
(* local files as assets of a GitHub release through a retrying HTTP       *)
(* session and prints a summary plus a filename mapping.                    *)
(*                                                                         *)
(* Text is modelled as sequences of Unicode code points, bytes as numbers  *)
(* 0..255.  The remote server and the local filesystem are the             *)
(* environment: their answers are drawn with \E in the actions.            *)
(***************************************************************************)
EXTENDS Integers, Sequences, FiniteSets, TLC

VARIABLES
    argv,              \* sys.argv, program name included
    pc,                \* position of the single control thread
    idx,               \* enumerate() index of the loop
    success_count,
    fail_count,
    filename_mapping,  \* list of {index, original_name, asset_id}
    upload_url,        \* local of upload_to_release
    filename,          \* local of upload_to_release
    encoded_filename,  \* local of upload_to_release
    retries_left,      \* Retry.total of the request in flight
    response,          \* what session.get / session.post handed to the caller
    tries,             \* observation: attempts sent for the request in flight
    nTransient,        \* observation: transient answers to it (429/5xx, errors)
    reqs,              \* observation: the logical requests issued, in order
    out,               \* stdout, one entry per printed line
    exit_code,         \* process exit status, NoExit while running
    trace              \* observation: how each processed path ended

vars == <<argv, pc, idx, success_count, fail_count, filename_mapping,
          upload_url, filename, encoded_filename, retries_left, response,
          tries, nTransient, reqs, out, exit_code, trace>>

----------------------------------------------------------------------------
(* Bounds of the model *)

MaxFiles == 2
MaxNameLen == 3

----------------------------------------------------------------------------
(* Text helpers *)

\* "/", the separator pathlib splits a path on
Slash == 47
\* ".", the component pathlib drops
Dot == 46
\* "%", the escape character of quote()
Percent == 37

\* the characters of the paths tried: "a", "%", ".", "/", Hebrew qof
\* (two UTF-8 bytes) and the euro sign (three)
Alphabet == {97, Percent, Dot, Slash, 1511, 8364}

RECURSIVE Flatten(_)
Flatten(ss) == IF ss = <<>> THEN <<>> ELSE Head(ss) \o Flatten(Tail(ss))

RECURSIVE SplitOn(_, _)
\* str.split(c): the pieces between occurrences of c
SplitOn(s, c) ==
    IF s = <<>> THEN << <<>> >>
    ELSE LET rest == SplitOn(Tail(s), c)
         IN  IF Head(s) = c THEN << <<>> >> \o rest
             ELSE << <<Head(s)>> \o Head(rest) >> \o Tail(rest)

\* pathlib.Path(p).name: the last component, empty and "." components dropped
PathName(p) ==
    LET parts == SelectSeq(SplitOn(p, Slash), LAMBDA c : c # <<>> /\ c # <<Dot>>)
    IN  IF parts = <<>> THEN <<>> ELSE parts[Len(parts)]

\* UTF-8 bytes of one code point (str.encode('utf-8'))
Utf8(cp) ==
    IF cp < 128 THEN <<cp>>
    ELSE IF cp < 2048 THEN <<192 + (cp \div 64), 128 + (cp % 64)>>
    ELSE <<224 + (cp \div 4096), 128 + ((cp \div 64) % 64), 128 + (cp % 64)>>

HexDigit(n) == IF n < 10 THEN 48 + n ELSE 65 + (n - 10)

\* characters urllib.parse.quote never escapes: letters, digits, "_.-~"
AlwaysSafe ==
    (65..90) \cup (97..122) \cup (48..57) \cup {95, 46, 45, 126}

QuoteByteUnsafePercent(b) ==
    IF b \in AlwaysSafe \cup {Percent} THEN <<b>>
    ELSE <<Percent, HexDigit(b \div 16), HexDigit(b % 16)>>

QuoteByte(b) ==
    IF b \in AlwaysSafe THEN <<b>>
    ELSE <<Percent, HexDigit(b \div 16), HexDigit(b % 16)>>

\* quote(s, safe=''): percent-encode the UTF-8 bytes of s
Quote(s) ==
    Flatten([i \in 1..Len(s) |-> Flatten([j \in 1..Len(Utf8(s[i])) |-> QuoteByte(Utf8(s[i])[j])])])

----------------------------------------------------------------------------
(* Retry configuration of create_retry_session *)

retries == 5

status_forcelist == {429, 500, 502, 503, 504}

allowed_methods_default == {"HEAD", "GET", "PUT", "DELETE", "OPTIONS", "TRACE"}

allowed_methods == {"HEAD", "GET", "PUT", "DELETE", "OPTIONS", "TRACE", "POST"}

----------------------------------------------------------------------------
(* The environment *)

NoExit == -1
\* Python's None, where a number is expected
None == 0
\* an attempt that ends in a connection or read error instead of a status
ConnErr == 1

\* the statuses the retry policy is described to retry
TransientStatuses == {429, 500, 502, 503, 504}

\* what one attempt of a request can meet
Answers == {200, 201, 404} \cup TransientStatuses \cup {ConnErr}

\* upload_url templates a release lookup can return
Templates == { <<"U1", "{", "?name,label}">>, <<"U2", "{", "?name,label}">> }

AssetIds == {101, None}

BaseArgs == <<"upload_to_release.py", "token", "owner", "repo", "tag">>

\* the paths of the multi-file runs
SomePaths == { <<97>>, <<1511, Dot, 97>>, <<97, Slash, Percent, 97, 97>> }

RECURSIVE SeqsUpTo(_, _)
SeqsUpTo(S, n) ==
    IF n = 0 THEN { <<>> }
    ELSE LET shorter == SeqsUpTo(S, n - 1)
         IN  shorter \cup { Append(s, x) : s \in { t \in shorter : Len(t) = n - 1 }, x \in S }

file_paths == SubSeq(argv, 6, Len(argv))

N == Len(file_paths)

NoResponse == [status |-> None, template |-> <<>>, id |-> None, json |-> TRUE]

Line(text) == [line |-> text, sc |-> 0, fc |-> 0, payload |-> <<>>]

----------------------------------------------------------------------------
(* Initial states *)

InitRest ==
    /\ pc = "args"
    /\ idx = 0
    /\ success_count = 0
    /\ fail_count = 0
    /\ filename_mapping = <<>>
    /\ upload_url = <<>>
    /\ filename = <<>>
    /\ encoded_filename = <<>>
    /\ retries_left = 0
    /\ response = NoResponse
    /\ tries = 0
    /\ nTransient = 0
    /\ reqs = <<>>
    /\ out = <<>>
    /\ exit_code = NoExit
    /\ trace = <<>>

\* any command line: too few arguments, or up to MaxFiles paths
Init ==
    /\ argv \in { SubSeq(BaseArgs, 1, n) : n \in 1..5 }
                \cup { BaseArgs \o fs : fs \in SeqsUpTo(SomePaths, MaxFiles) }
    /\ InitRest

\* one path, any text of up to MaxNameLen characters
InitName ==
    /\ argv \in { SubSeq(BaseArgs, 1, n) : n \in 1..5 }
                \cup { BaseArgs \o <<p>> : p \in SeqsUpTo(Alphabet, MaxNameLen) }
    /\ InitRest

----------------------------------------------------------------------------
(* __main__: argument check *)

\* the guard of line 96
TooFewArgs(av) == Len(av) < 5

Usage ==
    /\ pc = "args"
    /\ TooFewArgs(argv)
    /\ out' = Append(out, Line("usage"))
    /\ exit_code' = 1
    /\ pc' = "done"
    /\ UNCHANGED <<argv, idx, success_count, fail_count, filename_mapping,
                   upload_url, filename, encoded_filename, retries_left,
                   response, tries, nTransient, reqs, trace>>

ParseArgs ==
    /\ pc = "args"
    /\ ~TooFewArgs(argv)
    /\ pc' = "loop"
    /\ idx' = 0
    /\ success_count' = 0
    /\ fail_count' = 0
    /\ filename_mapping' = <<>>
    /\ UNCHANGED <<argv, upload_url, filename, encoded_filename, retries_left,
                   response, tries, nTransient, reqs, out, exit_code, trace>>

----------------------------------------------------------------------------
(* __main__: the loop over file_paths *)

file_path == file_paths[idx + 1]

\* a path that can name a regular file: not empty, no trailing "/",
\* last component neither "." nor ".."
CanBeFile(p) ==
    /\ p # <<>>
    /\ p[Len(p)] # Slash
    /\ LET last == SplitOn(p, Slash)[Len(SplitOn(p, Slash))]
       IN  last # <<Dot>> /\ last # <<Dot, Dot>>

\* the loop head moves on to the next path
NextPath ==
    /\ idx' = idx + 1
    /\ pc' = "loop"
    /\ upload_url' = <<>>
    /\ filename' = <<>>
    /\ encoded_filename' = <<>>
    /\ retries_left' = 0
    /\ response' = NoResponse
    /\ tries' = 0
    /\ nTransient' = 0

\* lines 111-114, without the continue: falls into the upload
NotFoundNoContinue ==
    /\ pc = "loop"
    /\ idx < N
    /\ out' = Append(out, Line("File not found"))
    /\ fail_count' = fail_count + 1
    /\ trace' = Append(trace, "missing")
    /\ pc' = "get"
    /\ retries_left' = retries
    /\ tries' = 0
    /\ nTransient' = 0
    /\ reqs' = Append(reqs, [method |-> "GET", idx |-> idx, url |-> <<>>,
                             name |-> <<>>, template |-> <<>>])
    /\ UNCHANGED <<argv, idx, success_count, filename_mapping, upload_url,
                   filename, encoded_filename, response, exit_code>>

\* lines 111-114: os.path.exists(file_path) is False
NotFound ==
    /\ pc = "loop"
    /\ idx < N
    /\ out' = Append(out, Line("File not found"))
    /\ fail_count' = fail_count + 1
    /\ trace' = Append(trace, "missing")
    /\ NextPath
    /\ UNCHANGED <<argv, success_count, filename_mapping, reqs, exit_code>>

\* lines 111, 116, 41-51: the path exists; upload_to_release creates its
\* session and issues the release lookup
CallUpload ==
    /\ pc = "loop"
    /\ idx < N
    /\ file_path # <<>>
    /\ trace' = Append(trace, "pending")
    /\ pc' = "get"
    /\ retries_left' = retries
    /\ tries' = 0
    /\ nTransient' = 0
    /\ reqs' = Append(reqs, [method |-> "GET", idx |-> idx, url |-> <<>>,
                             name |-> <<>>, template |-> <<>>])
    /\ UNCHANGED <<argv, idx, success_count, fail_count, filename_mapping,
                   upload_url, filename, encoded_filename, response, out,
                   exit_code>>

SetLast(s, v) == [s EXCEPT ![Len(s)] = v]

\* lines 119-123 with a one-based index
MappingRecordOneBased(i, name, id) ==
    [index |-> i + 1, original_name |-> name, asset_id |-> id]

\* lines 119-123
MappingRecord(i, name, id) ==
    [index |-> i, original_name |-> name, asset_id |-> id]

\* lines 124-125 without the increment
CountFailureForgets(fc) == fc

\* lines 124-125
CountFailure(fc) == fc + 1

\* lines 116-125: upload_to_release returned (success, name, id)
Returned(success, name, id) ==
    /\ IF success
       THEN /\ success_count' = success_count + 1
            /\ filename_mapping' = Append(filename_mapping, MappingRecord(idx, name, id))
            /\ fail_count' = fail_count
       ELSE /\ fail_count' = CountFailure(fail_count)
            /\ UNCHANGED <<success_count, filename_mapping>>
    /\ trace' = SetLast(trace, IF success THEN "ok" ELSE "failed")
    /\ NextPath

\* an exception that upload_to_release does not catch ends the process
\* with a traceback and exit status 1
Uncaught(what) ==
    /\ out' = Append(out, Line(what))
    /\ trace' = SetLast(trace, "crash")
    /\ exit_code' = 1
    /\ pc' = "done"

----------------------------------------------------------------------------
(* The retrying session: one attempt of the request in flight *)

Method == IF pc = "get" THEN "GET" ELSE "POST"

\* the policy retries this answer to this method
ShouldRetry(m, a) ==
    \/ a = ConnErr
    \/ a \in status_forcelist /\ m \in allowed_methods

Observe(a) ==
    /\ tries' = tries + 1
    /\ nTransient' = nTransient + (IF a \in TransientStatuses \cup {ConnErr} THEN 1 ELSE 0)

\* a transient answer with retries left: back off and send again
SendRetry ==
    /\ pc \in {"get", "post"}
    /\ \E a \in Answers :
         /\ ShouldRetry(Method, a)
         /\ retries_left > 0
         /\ Observe(a)
    /\ retries_left' = retries_left - 1
    /\ UNCHANGED <<argv, pc, idx, success_count, fail_count, filename_mapping,
                   upload_url, filename, encoded_filename, response, reqs,
                   out, exit_code, trace>>

\* a transient answer with no retries left: the session raises
SendRaise ==
    /\ pc \in {"get", "post"}
    /\ \E a \in Answers :
         /\ ShouldRetry(Method, a)
         /\ retries_left = 0
         /\ Observe(a)
    /\ pc' = "except"
    /\ UNCHANGED <<argv, idx, success_count, fail_count, filename_mapping,
                   upload_url, filename, encoded_filename, retries_left,
                   response, reqs, out, exit_code, trace>>

\* the bodies a release lookup can carry: an upload_url, none, or no JSON
GetBodies ==
    { [template |-> t, id |-> None, json |-> TRUE] : t \in Templates \cup { <<>> } }
        \cup { [template |-> <<>>, id |-> None, json |-> FALSE] }

\* the bodies an upload can carry: an id, none, or no JSON
PostBodies ==
    { [template |-> <<>>, id |-> i, json |-> TRUE] : i \in AssetIds }
        \cup { [template |-> <<>>, id |-> None, json |-> FALSE] }

Bodies(m, a) ==
    IF m = "GET" /\ a = 200 THEN GetBodies
    ELSE IF m = "POST" /\ a \in {200, 201} THEN PostBodies
    ELSE { [template |-> <<>>, id |-> None, json |-> TRUE] }

\* any other answer is handed to the caller as the response
SendRespond ==
    /\ pc \in {"get", "post"}
    /\ \E a \in Answers :
         /\ ~ShouldRetry(Method, a)
         /\ Observe(a)
         /\ \E b \in Bodies(Method, a) :
              /\ response' = [status |-> a, template |-> b.template,
                              id |-> b.id, json |-> b.json]
              /\ reqs' = SetLast(reqs, [reqs[Len(reqs)] EXCEPT !.template = b.template])
    /\ pc' = IF pc = "get" THEN "got" ELSE "posted"
    /\ UNCHANGED <<argv, idx, success_count, fail_count, filename_mapping,
                   upload_url, filename, encoded_filename, retries_left,
                   out, exit_code, trace>>

----------------------------------------------------------------------------
(* upload_to_release *)

\* line 57 without the split
KeepTemplate(t) == t

\* line 57: release['upload_url'].split('{')[0]
StripTemplate(t) == SplitOn(t, "{")[1]

\* lines 52-54: the lookup did not answer 200
GetFailed ==
    /\ pc = "got"
    /\ response.status # 200
    /\ out' = Append(out, Line("Failed to get release"))
    /\ Returned(FALSE, <<>>, None)
    /\ UNCHANGED <<argv, reqs, exit_code>>

\* lines 56, 83: response.json() on a body that is not JSON raises; the
\* installed requests decides whether that is a RequestException
\* (caught at line 91) or a plain ValueError (not caught)
BadJson ==
    /\ \/ pc = "got" /\ response.status = 200
       \/ pc = "posted" /\ response.status \in {200, 201}
    /\ ~response.json
    /\ \/ /\ pc' = "except"
          /\ UNCHANGED <<out, trace, exit_code>>
       \/ Uncaught("Traceback: ValueError")
    /\ UNCHANGED <<argv, idx, success_count, fail_count, filename_mapping,
                   upload_url, filename, encoded_filename, retries_left,
                   response, tries, nTransient, reqs>>

\* line 57: the release object has no upload_url key
GetNoUrl ==
    /\ pc = "got"
    /\ response.status = 200
    /\ response.json
    /\ response.template = <<>>
    /\ Uncaught("Traceback: KeyError")
    /\ UNCHANGED <<argv, idx, success_count, fail_count, filename_mapping,
                   upload_url, filename, encoded_filename, retries_left,
                   response, tries, nTransient, reqs>>

\* lines 56-73: upload URL, file name and its encoding
GetParsed ==
    /\ pc = "got"
    /\ response.status = 200
    /\ response.json
    /\ response.template # <<>>
    /\ upload_url' = StripTemplate(response.template)
    /\ filename' = PathName(file_path)
    /\ encoded_filename' = Quote(PathName(file_path))
    /\ pc' = "open"
    /\ UNCHANGED <<argv, idx, success_count, fail_count, filename_mapping,
                   retries_left, response, tries, nTransient, reqs, out,
                   exit_code, trace>>

\* line 75: open() raises OSError (a directory, no permission, ...)
OpenFails ==
    /\ pc = "open"
    /\ Uncaught("Traceback: OSError")
    /\ UNCHANGED <<argv, idx, success_count, fail_count, filename_mapping,
                   upload_url, filename, encoded_filename, retries_left,
                   response, tries, nTransient, reqs>>

\* lines 75-80: the file opens and the upload is issued
OpenOk ==
    /\ pc = "open"
    /\ CanBeFile(file_path)
    /\ pc' = "post"
    /\ retries_left' = retries
    /\ tries' = 0
    /\ nTransient' = 0
    /\ response' = NoResponse
    /\ reqs' = Append(reqs, [method |-> "POST", idx |-> idx, url |-> upload_url,
                             name |-> encoded_filename, template |-> <<>>])
    /\ UNCHANGED <<argv, idx, success_count, fail_count, filename_mapping,
                   upload_url, filename, encoded_filename, out, exit_code,
                   trace>>

\* lines 82-86
PostOk ==
    /\ pc = "posted"
    /\ response.status \in {200, 201}
    /\ response.json
    /\ out' = Append(out, Line("Successfully uploaded"))
    /\ Returned(TRUE, filename, response.id)
    /\ UNCHANGED <<argv, reqs, exit_code>>

\* lines 87-89
PostFailed ==
    /\ pc = "posted"
    /\ response.status \notin {200, 201}
    /\ out' = Append(out, Line("Failed to upload"))
    /\ Returned(FALSE, <<>>, None)
    /\ UNCHANGED <<argv, reqs, exit_code>>

\* lines 91-93
Except ==
    /\ pc = "except"
    /\ out' = Append(out, Line("Exception during upload"))
    /\ Returned(FALSE, <<>>, None)
    /\ UNCHANGED <<argv, reqs, exit_code>>

----------------------------------------------------------------------------
(* __main__: summary, mapping block and exit status *)

HexLower(n) == IF n < 10 THEN 48 + n ELSE 97 + (n - 10)

\* one character of a JSON string under ensure_ascii=True
JsonChar(cp) ==
    IF cp \in {34, 92} THEN <<92, cp>>
    ELSE IF cp >= 32 /\ cp < 127 THEN <<cp>>
    ELSE <<92, 117, HexLower(cp \div 4096), HexLower((cp \div 256) % 16),
           HexLower((cp \div 16) % 16), HexLower(cp % 16)>>

\* json.dumps(filename_mapping, ensure_ascii=True): the records in list
\* order, strings escaped to ASCII; Base64 then carries that text unchanged
JsonDumps(m) ==
    [j \in 1..Len(m) |->
        [index |-> m[j].index,
         original_name |-> Flatten([k \in 1..Len(m[j].original_name) |->
                                       JsonChar(m[j].original_name[k])]),
         asset_id |-> m[j].asset_id]]

\* line 127
Summary ==
    /\ pc = "loop"
    /\ idx = N
    /\ out' = Append(out, [line |-> "Results", sc |-> success_count,
                           fc |-> fail_count, payload |-> <<>>])
    /\ pc' = "mapping"
    /\ UNCHANGED <<argv, idx, success_count, fail_count, filename_mapping,
                   upload_url, filename, encoded_filename, retries_left,
                   response, tries, nTransient, reqs, exit_code, trace>>

\* lines 130-136
EmitMapping ==
    /\ pc = "mapping"
    /\ filename_mapping # <<>>
    /\ out' = out \o << Line("===FILENAME_MAPPING_START==="),
                        [line |-> "payload", sc |-> 0, fc |-> 0,
                         payload |-> JsonDumps(filename_mapping)],
                        Line("===FILENAME_MAPPING_END===") >>
    /\ pc' = "exit"
    /\ UNCHANGED <<argv, idx, success_count, fail_count, filename_mapping,
                   upload_url, filename, encoded_filename, retries_left,
                   response, tries, nTransient, reqs, exit_code, trace>>

\* line 138 keyed on the success count
ExitStatusBySuccess(sc, fc) == IF sc > 0 THEN 0 ELSE 1

\* line 138
ExitStatus(sc, fc) == IF fc = 0 THEN 0 ELSE 1

Exit ==
    /\ \/ pc = "exit"
       \/ pc = "mapping" /\ filename_mapping = <<>>
    /\ exit_code' = ExitStatus(success_count, fail_count)
    /\ pc' = "done"
    /\ UNCHANGED <<argv, idx, success_count, fail_count, filename_mapping,
                   upload_url, filename, encoded_filename, retries_left,
                   response, tries, nTransient, reqs, out, trace>>

----------------------------------------------------------------------------

Next ==
    \/ Usage
    \/ ParseArgs
    \/ NotFound
    \/ CallUpload
    \/ SendRetry
    \/ SendRaise
    \/ SendRespond
    \/ GetFailed
    \/ BadJson
    \/ GetNoUrl
    \/ GetParsed
    \/ OpenFails
    \/ OpenOk
    \/ PostOk
    \/ PostFailed
    \/ Except
    \/ Summary
    \/ EmitMapping
    \/ Exit

Spec == Init /\ [][Next]_vars

SpecName == InitName /\ [][Next]_vars

----------------------------------------------------------------------------
(* Vocabulary of the properties *)

PastArgs == pc # "args" /\ ~TooFewArgs(argv)

Crashed == trace # <<>> /\ trace[Len(trace)] = "crash"

Lines(text) == { k \in 1..Len(out) : out[k].line = text }

Gets == { k \in 1..Len(reqs) : reqs[k].method = "GET" }

Posts == { k \in 1..Len(reqs) : reqs[k].method = "POST" }

\* the text of a template before its first "{"
BeforeBrace(t) ==
    IF \E i \in 1..Len(t) : t[i] = "{"
    THEN SubSeq(t, 1, (CHOOSE i \in 1..Len(t) :
                          t[i] = "{" /\ \A j \in 1..(i - 1) : t[j] # "{") - 1)
    ELSE t

\* the text of a path after its last "/"
AfterLastSlash(p) ==
    IF \E i \in 1..Len(p) : p[i] = Slash
    THEN SubSeq(p, (CHOOSE i \in 1..Len(p) :
                       p[i] = Slash /\ \A j \in (i + 1)..Len(p) : p[j] # Slash) + 1, Len(p))
    ELSE p

HexVal(c) ==
    IF c \in 48..57 THEN c - 48
    ELSE IF c \in 65..70 THEN c - 55
    ELSE IF c \in 97..102 THEN c - 87
    ELSE -1

RECURSIVE PercentDecodeBytes(_)
\* percent-decoding, to bytes: %XY is one byte, anything else stands for
\* its own UTF-8 bytes
PercentDecodeBytes(s) ==
    IF s = <<>> THEN <<>>
    ELSE IF s[1] = Percent /\ Len(s) >= 3 /\ HexVal(s[2]) >= 0 /\ HexVal(s[3]) >= 0
         THEN <<16 * HexVal(s[2]) + HexVal(s[3])>> \o PercentDecodeBytes(SubSeq(s, 4, Len(s)))
         ELSE Utf8(s[1]) \o PercentDecodeBytes(Tail(s))

IsCont(b) == b \in 128..191

RECURSIVE Utf8Decode(_)
\* UTF-8 decoding; bytes that are not UTF-8 become U+FFFD
Utf8Decode(b) ==
    IF b = <<>> THEN <<>>
    ELSE IF b[1] < 128 THEN <<b[1]>> \o Utf8Decode(Tail(b))
    ELSE IF b[1] \in 194..223 /\ Len(b) >= 2 /\ IsCont(b[2])
         THEN <<(b[1] - 192) * 64 + (b[2] - 128)>> \o Utf8Decode(SubSeq(b, 3, Len(b)))
    ELSE IF b[1] \in 224..239 /\ Len(b) >= 3 /\ IsCont(b[2]) /\ IsCont(b[3])
         THEN <<(b[1] - 224) * 4096 + (b[2] - 128) * 64 + (b[3] - 128)>>
                  \o Utf8Decode(SubSeq(b, 4, Len(b)))
    ELSE <<65533>> \o Utf8Decode(Tail(b))

PercentDecode(s) == Utf8Decode(PercentDecodeBytes(s))

\* a percent-encoding: unreserved ASCII characters and %XY groups only
RECURSIVE IsPercentEncoded(_)
IsPercentEncoded(s) ==
    IF s = <<>> THEN TRUE
    ELSE IF s[1] = Percent
         THEN /\ Len(s) >= 3
              /\ HexVal(s[2]) >= 0
              /\ HexVal(s[3]) >= 0
              /\ IsPercentEncoded(SubSeq(s, 4, Len(s)))
         ELSE s[1] \in AlwaysSafe /\ IsPercentEncoded(Tail(s))

----------------------------------------------------------------------------
(* Properties *)

\* C1: in a run past the argument check whose files end as missing, failed
\* or uploaded, success_count + fail_count is the number of paths processed
\* at every loop boundary, and the number of input paths from the end of
\* the loop to the final exit.
C1_CountsAddUp ==
    (PastArgs /\ ~Crashed) =>
        /\ pc = "loop" => (success_count + fail_count = idx /\ Len(trace) = idx)
        /\ pc \in {"mapping", "exit", "done"} => success_count + fail_count = N

C1_Witness ==
    /\ pc = "done"
    /\ N = 2
    /\ trace = <<"missing", "ok">>
    /\ success_count = 1
    /\ fail_count = 1

C3_MappingIndices ==
    \A k \in Lines("payload") :
        LET P == out[k].payload
        IN  /\ Len(P) = success_count
            /\ \A j \in 1..(Len(P) - 1) : P[j].index < P[j + 1].index
            /\ \A j \in 1..Len(P) : P[j].index \in 0..(N - 1)
            /\ \A i \in 0..(N - 1) :
                   (\E j \in 1..Len(P) : P[j].index = i) <=> trace[i + 1] = "ok"

C3_Witness ==
    \E k \in Lines("payload") :
        /\ Len(out[k].payload) = 1
        /\ out[k].payload[1].index = 1
        /\ trace[1] # "ok"

\* C4: whatever goes wrong with one file, every later path is processed
\* and the run reaches the results summary.
C4_ErrorsIsolated ==
    (pc = "done" /\ ~TooFewArgs(argv)) =>
        /\ Len(trace) = N
        /\ Lines("Results") # {}

C6_MappingBlock ==
    (pc = "done" /\ ~TooFewArgs(argv)) =>
        /\ success_count > 0 <=> Lines("payload") # {}
        /\ Cardinality(Lines("payload")) <= 1
        /\ \A k \in Lines("payload") :
              /\ k = Len(out) - 1
              /\ out[k - 1].line = "===FILENAME_MAPPING_START==="
              /\ out[k + 1].line = "===FILENAME_MAPPING_END==="
              /\ out[k - 2].line = "Results"

\* C7: no request is ever issued for a path found missing, and the step
\* that finds a path missing adds one to fail_count and leaves
\* success_count, the mapping and the requests alone.
C7_NoRequestInv ==
    /\ \A k \in 1..Len(reqs) : trace[reqs[k].idx + 1] # "missing"
    /\ fail_count = Cardinality({ i \in 1..Len(trace) : trace[i] \in {"missing", "failed"} })

C7_MissingStep ==
    (Len(trace') = Len(trace) + 1 /\ trace'[Len(trace')] = "missing") =>
        /\ fail_count' = fail_count + 1
        /\ success_count' = success_count
        /\ filename_mapping' = filename_mapping
        /\ reqs' = reqs
        /\ pc' = "loop"
        /\ idx' = idx + 1

C7_MissingFile == [](C7_NoRequestInv) /\ [][C7_MissingStep]_vars

C7_Witness ==
    /\ trace = <<"ok", "missing">>
    /\ Len(reqs) = 2
    /\ fail_count = 1

\* C8: a command line with fewer than 5 arguments after the program name
\* ends with the usage message alone, exit status 1 and no request.
C8_UsageWithoutPath ==
    (pc = "done" /\ Len(argv) - 1 < 5) =>
        /\ exit_code = 1
        /\ out = <<Line("usage")>>
        /\ reqs = <<>>

\* C9: the caller of the session gets a response only after one more
\* attempt than there were transient answers, never a transient status
\* while retries are left, and gets an exception from the session only
\* after more than `retries` transient answers.
C9_RetryThenResponse ==
    /\ pc \in {"got", "posted"} =>
          /\ tries = nTransient + 1
          /\ nTransient <= 5
          /\ response.status \notin {429, 500, 502, 503, 504}
    /\ (pc = "except" /\ response = NoResponse) => nTransient > 5

C9_Witness ==
    /\ pc = "posted"
    /\ response.status = 200
    /\ nTransient = 4
    /\ tries = 5

\* C10: every mapping record carries the base name of its input path, and
\* the name parameter of that file's upload is a percent-encoding that
\* decodes to it.
C10_NameRoundTrip ==
    /\ \A k \in Posts :
          /\ IsPercentEncoded(reqs[k].name)
          /\ PercentDecode(reqs[k].name) = AfterLastSlash(file_paths[reqs[k].idx + 1])
    /\ \A j \in 1..Len(filename_mapping) :
          LET r == filename_mapping[j]
          IN  /\ r.original_name = AfterLastSlash(file_paths[r.index + 1])
              /\ \E k \in Posts :
                    /\ reqs[k].idx = r.index
                    /\ PercentDecode(reqs[k].name) = r.original_name

C10_Witness ==
    /\ Len(filename_mapping) = 1
    /\ filename_mapping[1].original_name = <<1511, Percent, 97>>
    /\ \E k \in Posts : reqs[k].name # filename_mapping[1].original_name

====
